---- MODULE Spec2Model ----
(***************************************************************************)
(* Portfolio-Optimization-Demo-App: data_handler.py (price loading, daily  *)
(* and cumulative returns, risk metrics), optimizer.py (portfolio          *)
(* performance, optimize_portfolio) and the app.py script.                 *)
(*                                                                         *)
(* Floating-point values are modelled exactly: a float is a rational n/d   *)
(* or one of the IEEE specials NaN, +inf, -inf; a value that involves a    *)
(* square root (a volatility, a Sharpe ratio) is a signed square root of a *)
(* rational.  Rounding to 4 decimals is round-half-to-even on the exact    *)
(* value.                                                                  *)
(***************************************************************************)
EXTENDS Integers, Sequences, FiniteSets, TLC

VARIABLES
    pc,                 \* position of the operation under way
    prices,             \* price table: [ncols, rows], rows of floats
    daily_returns,      \* returns table: [ncols, rows]
    cumulative_return,  \* cumulative-returns table: [ncols, rows]
    weights,            \* weight vector handed to the metric functions
    metrics,            \* what each of the three metric computations gave
    method,             \* optimize_portfolio's method string
    solver,             \* minimize()'s result: [called, x, success]
    result,             \* the dictionary optimize_portfolio returned, or its exception
    input_mode,         \* app.py: sidebar radio
    tickers,            \* app.py: the tickers text area, split on ","
    weight_text,        \* app.py: the weights text area, split on ","
    selected,           \* app.py: the preloaded portfolio chosen in the selectbox
    portfolio,          \* app.py: the dict ticker -> weight, as ordered pairs
    button,             \* app.py: whether "Optimize Portfolio" was pressed
    sidebar_error,      \* app.py: st.sidebar.error message, or "none"
    main_message,       \* app.py: st.error / st.info / st.success message
    benchmark,          \* app.py: the ^GSPC prices, returns and metrics
    calls               \* the functions the script has called, in order

\* The state of the app.py script beyond the tables and results.
appVars == <<input_mode, tickers, weight_text, selected, portfolio, button,
             sidebar_error, main_message, benchmark>>

vars == <<pc, prices, daily_returns, cumulative_return, weights, metrics,
          method, solver, result, appVars, calls>>

(***************************************************************************)
(* Bounds of the model.                                                    *)
(***************************************************************************)
MaxDays == 3         \* rows of a price table

(***************************************************************************)
(* Exact arithmetic on floats.                                             *)
(***************************************************************************)
Abs(a) == IF a < 0 THEN -a ELSE a

Sign(a) == IF a < 0 THEN -1 ELSE IF a = 0 THEN 0 ELSE 1

RECURSIVE GCD(_, _)
GCD(a, b) == IF b = 0 THEN a ELSE GCD(b, a % b)

NaN == [k |-> "nan", n |-> 0, d |-> 1]

PosInf == [k |-> "inf", n |-> 1, d |-> 1]

NegInf == [k |-> "inf", n |-> -1, d |-> 1]

\* The float n/d, d # 0, in lowest terms with a positive denominator.
Fin(n, d) ==
    LET g == GCD(Abs(n), Abs(d))
        s == IF d < 0 THEN -1 ELSE 1
    IN  [k |-> "fin", n |-> s * (n \div g), d |-> s * (d \div g)]

IsNaN(a) == a.k = "nan"

IsFinite(a) == a.k = "fin"

Inf(s) == IF s < 0 THEN NegInf ELSE PosInf

\* IEEE addition.
Add(a, b) ==
    CASE IsNaN(a) \/ IsNaN(b) -> NaN
      [] a.k = "inf" /\ b.k = "inf" -> IF a.n = b.n THEN a ELSE NaN
      [] a.k = "inf" -> a
      [] b.k = "inf" -> b
      [] OTHER -> LET g == GCD(a.d, b.d)
                  IN  Fin(a.n * (b.d \div g) + b.n * (a.d \div g),
                          a.d * (b.d \div g))

Neg(a) == [a EXCEPT !.n = -a.n]

Sub(a, b) == Add(a, Neg(b))

\* IEEE multiplication.
Mul(a, b) ==
    CASE IsNaN(a) \/ IsNaN(b) -> NaN
      [] a.k = "inf" \/ b.k = "inf" ->
            IF a.n = 0 \/ b.n = 0 THEN NaN ELSE Inf(Sign(a.n) * Sign(b.n))
      [] OTHER -> LET g1 == GCD(Abs(a.n), b.d)
                      g2 == GCD(Abs(b.n), a.d)
                  IN  Fin((a.n \div g1) * (b.n \div g2),
                          (a.d \div g2) * (b.d \div g1))

\* IEEE division: x/0 is +-inf, 0/0 is NaN.
Div(a, b) ==
    CASE IsNaN(a) \/ IsNaN(b) -> NaN
      [] a.k = "inf" /\ b.k = "inf" -> NaN
      [] a.k = "inf" -> Inf(a.n * (IF b.n < 0 THEN -1 ELSE 1))
      [] b.k = "inf" -> Fin(0, 1)
      [] b.n = 0 -> IF a.n = 0 THEN NaN ELSE Inf(a.n)
      [] OTHER -> Mul(a, Fin(b.d, b.n))

One == Fin(1, 1)

Zero == Fin(0, 1)

(***************************************************************************)
(* Reductions of numpy and pandas.  pandas reductions skip NaN (skipna),   *)
(* numpy's do not.                                                         *)
(***************************************************************************)
RECURSIVE SumTo(_, _, _)
SumTo(xs, i, skipna) ==
    IF i = 0 THEN Zero
    ELSE IF skipna /\ IsNaN(xs[i]) THEN SumTo(xs, i - 1, skipna)
    ELSE Add(SumTo(xs, i - 1, skipna), xs[i])

SumOf(xs, skipna) == SumTo(xs, Len(xs), skipna)

Kept(xs, skipna) ==
    LET present(x) == ~IsNaN(x)
    IN  IF skipna THEN SelectSeq(xs, present) ELSE xs

\* mean(): NaN for an empty series.
MeanOf(xs, skipna) ==
    LET ys == Kept(xs, skipna)
    IN  IF Len(ys) = 0 THEN NaN ELSE Div(SumOf(ys, FALSE), Fin(Len(ys), 1))

(***************************************************************************)
(* Tables (pandas DataFrame): a number of columns and a sequence of rows.  *)
(***************************************************************************)
Table(ncols, rows) == [ncols |-> ncols, rows |-> rows]

NoTable == Table(0, <<>>)

NRows(t) == Len(t.rows)

\* DataFrame.dropna(): drops every row that holds a NaN.
DropNa(t) ==
    LET complete(row) == \A i \in 1..Len(row) : ~IsNaN(row[i])
    IN  Table(t.ncols, SelectSeq(t.rows, complete))

(***************************************************************************)
(* data_handler.py                                                         *)
(***************************************************************************)
\* DataFrame.pct_change(): row 1 is NaN, row t is p[t]/p[t-1] - 1.
PctChange(t) ==
    Table(t.ncols,
          [r \in 1..NRows(t) |->
              [i \in 1..t.ncols |->
                  IF r = 1 THEN NaN
                  ELSE Sub(Div(t.rows[r][i], t.rows[r - 1][i]), One)]])

\* pct_change() without the dropna(): the leading undefined row is kept.
daily_returns_keeping_first_row(p) == PctChange(p)

calculate_daily_returns(p) == DropNa(PctChange(p))

\* DataFrame.cumprod(): the running product down each column.
RECURSIVE CumProd(_, _, _)
CumProd(t, r, i) ==
    IF r = 1 THEN t.rows[1][i]
    ELSE Mul(CumProd(t, r - 1, i), t.rows[r][i])

\* The running sum of the daily returns: no compounding.
cumulative_returns_by_sum(dr) ==
    Table(dr.ncols,
          [r \in 1..NRows(dr) |->
              [i \in 1..dr.ncols |->
                  SumOf([q \in 1..r |-> dr.rows[q][i]], FALSE)]])

calculate_cumulative_returns(dr) ==
    LET one_plus == Table(dr.ncols,
                          [r \in 1..NRows(dr) |->
                              [i \in 1..dr.ncols |-> Add(One, dr.rows[r][i])]])
        cumulative_value == Table(dr.ncols,
                          [r \in 1..NRows(dr) |->
                              [i \in 1..dr.ncols |-> CumProd(one_plus, r, i)]])
    IN  Table(dr.ncols,
              [r \in 1..NRows(dr) |->
                  [i \in 1..dr.ncols |-> Sub(cumulative_value.rows[r][i], One)]])

(***************************************************************************)
(* Square roots and rounding.  A Surd is s * sqrt(n/d) with s in -1..1, or  *)
(* NaN or +-inf (k = "inf", s its sign).                                   *)
(***************************************************************************)
TradingDays == 252

Decimals == 4

SurdNaN == [k |-> "nan", s |-> 0, n |-> 0, d |-> 1]

SurdInf(s) == [k |-> "inf", s |-> s, n |-> 1, d |-> 1]

SurdZero == [k |-> "fin", s |-> 0, n |-> 0, d |-> 1]

\* The float a as a Surd: sign(a) * sqrt(a^2).
SurdOf(a) ==
    CASE a.k = "nan" -> SurdNaN
      [] a.k = "inf" -> SurdInf(a.n)
      [] OTHER -> [k |-> "fin", s |-> Sign(a.n), n |-> a.n * a.n, d |-> a.d * a.d]

\* sqrt(a) for a float a: NaN for a negative or NaN argument.
Sqrt(a) ==
    CASE a.k = "nan" -> SurdNaN
      [] a.k = "inf" -> IF a.n > 0 THEN SurdInf(1) ELSE SurdNaN
      [] a.n < 0 -> SurdNaN
      [] OTHER -> [k |-> "fin", s |-> Sign(a.n), n |-> a.n, d |-> a.d]

\* IEEE product and quotient of Surds.
SurdMul(a, b) ==
    CASE a.k = "nan" \/ b.k = "nan" -> SurdNaN
      [] a.k = "inf" \/ b.k = "inf" ->
            IF a.s = 0 \/ b.s = 0 THEN SurdNaN ELSE SurdInf(a.s * b.s)
      [] OTHER -> LET q == Mul(Fin(a.n, a.d), Fin(b.n, b.d))
                  IN  [k |-> "fin", s |-> a.s * b.s, n |-> q.n, d |-> q.d]

SurdDiv(a, b) ==
    CASE a.k = "nan" \/ b.k = "nan" -> SurdNaN
      [] a.k = "inf" /\ b.k = "inf" -> SurdNaN
      [] a.k = "inf" -> SurdInf(a.s * (IF b.s < 0 THEN -1 ELSE 1))
      [] b.k = "inf" -> SurdZero
      [] b.s = 0 -> IF a.s = 0 THEN SurdNaN ELSE SurdInf(a.s)
      [] OTHER -> LET q == Div(Fin(a.n, a.d), Fin(b.n, b.d))
                  IN  [k |-> "fin", s |-> a.s * b.s, n |-> q.n, d |-> q.d]

\* Python's x != 0 on a float: NaN and the infinities differ from 0.
SurdNonZero(a) == ~(a.k = "fin" /\ a.s = 0)

\* Natural numbers beyond the machine word, as little-endian limbs.
Limb == 100 * 100

RECURSIVE BigCarry(_, _)
BigCarry(x, c) ==
    IF x = <<>> THEN (IF c = 0 THEN <<>> ELSE <<c % Limb>> \o BigCarry(<<>>, c \div Limb))
    ELSE LET v == Head(x) + c IN <<v % Limb>> \o BigCarry(Tail(x), v \div Limb)

RECURSIVE BigNorm(_)
BigNorm(x) ==
    IF x # <<>> /\ x[Len(x)] = 0 THEN BigNorm(SubSeq(x, 1, Len(x) - 1)) ELSE x

BigOf(m) == BigCarry(<<>>, m)

RECURSIVE BigConv(_, _, _, _)
BigConv(x, y, k, i) ==
    IF i > Len(x) \/ i > k THEN 0
    ELSE (IF k + 1 - i <= Len(y) THEN x[i] * y[k + 1 - i] ELSE 0) + BigConv(x, y, k, i + 1)

BigMul(x, y) ==
    IF x = <<>> \/ y = <<>> THEN <<>>
    ELSE BigNorm(BigCarry([k \in 1..(Len(x) + Len(y) - 1) |-> BigConv(x, y, k, 1)], 0))

RECURSIVE BigCmpFrom(_, _, _)
BigCmpFrom(x, y, i) ==
    IF i = 0 THEN 0
    ELSE IF x[i] # y[i] THEN (IF x[i] < y[i] THEN -1 ELSE 1)
    ELSE BigCmpFrom(x, y, i - 1)

\* -1, 0 or 1 as x <, =, > y (both normalised).
BigCmp(x, y) ==
    IF Len(x) # Len(y) THEN (IF Len(x) < Len(y) THEN -1 ELSE 1)
    ELSE BigCmpFrom(x, y, Len(x))

RECURSIVE Pow10(_)
Pow10(e) == IF e = 0 THEN 1 ELSE 10 * Pow10(e - 1)

\* Pow10(2 * Decimals) * c * n as a big natural.
Scaled(c, n) ==
    BigMul(BigMul(BigOf(Pow10(Decimals)), BigOf(Pow10(Decimals))),
           BigMul(BigOf(c), BigOf(n)))

\* -1, 0 or 1 as m^2 * d is <, =, > the big natural rhs.
SqCmp(m, d, rhs) == BigCmp(BigMul(BigMul(BigOf(m), BigOf(m)), BigOf(d)), rhs)

\* The largest i in lo..hi-1 with i^2 <= q.
RECURSIVE ISqrt(_, _, _)
ISqrt(lo, hi, q) ==
    IF hi - lo <= 1 THEN lo
    ELSE LET mid == (lo + hi) \div 2
         IN  IF mid * mid <= q THEN ISqrt(mid, hi, q) ELSE ISqrt(lo, mid, q)

\* The largest m in lo..hi-1 with m^2 * d <= rhs.
RECURSIVE FloorSqrt(_, _, _, _)
FloorSqrt(lo, hi, d, rhs) ==
    IF hi - lo <= 1 THEN lo
    ELSE LET mid == (lo + hi) \div 2
         IN  IF SqCmp(mid, d, rhs) <= 0 THEN FloorSqrt(mid, hi, d, rhs)
             ELSE FloorSqrt(lo, mid, d, rhs)

\* Round-half-to-even of Pow10(Decimals) * sqrt(n/d).
RoundSqrt(n, d) ==
    LET i == ISqrt(0, 46341, n \div d)
        f == FloorSqrt(i * Pow10(Decimals), (i + 1) * Pow10(Decimals), d, Scaled(1, n))
        half == SqCmp(2 * f + 1, d, Scaled(4, n))     \* (f + 1/2) against the value
    IN  IF half < 0 \/ (half = 0 /\ f % 2 = 1) THEN f + 1 ELSE f

\* Round-half-to-even of the rational p/q, q > 0.
RoundRat(p, q) ==
    LET f == p \div q
        twice == 2 * (p - f * q)
    IN  IF twice > q \/ (twice = q /\ f % 2 = 1) THEN f + 1 ELSE f

\* np.round(a, 4) / round(a, 4) of a float: the nearest multiple of 1e-4.
Round4(a) ==
    IF a.k # "fin" THEN a
    ELSE Fin(RoundRat(Pow10(Decimals) * a.n, a.d), Pow10(Decimals))

\* round(a, 4) of a value that is a Surd; the result is a float.
Round4Surd(a) ==
    CASE a.k = "nan" -> NaN
      [] a.k = "inf" -> Inf(a.s)
      [] OTHER -> Fin(a.s * RoundSqrt(a.n, a.d), Pow10(Decimals))

(***************************************************************************)
(* Standard deviation and the metric computations.                         *)
(***************************************************************************)
\* std(ddof): sqrt(sum((x - mean)^2) / (count - ddof)), NaN when count <= ddof.
StdOf(xs, ddof, skipna) ==
    LET ys == Kept(xs, skipna)
        m == MeanOf(ys, FALSE)
        sq == [i \in 1..Len(ys) |-> Mul(Sub(ys[i], m), Sub(ys[i], m))]
    IN  IF Len(ys) <= ddof THEN SurdNaN
        ELSE Sqrt(Div(SumOf(sq, FALSE), Fin(Len(ys) - ddof, 1)))

SqrtTradingDays == Sqrt(Fin(TradingDays, 1))

\* (daily_returns * weights).sum(axis=1): the weighted sum of each row,
\* NaN products skipped; a ValueError when the lengths differ.
calculate_portfolio_return(dr, w) ==
    [r \in 1..NRows(dr) |->
        SumOf([i \in 1..dr.ncols |-> Mul(dr.rows[r][i], w[i])], TRUE)]

\* np.dot(returns, weights): the weighted sum of each row.
Dot(dr, w) ==
    [r \in 1..NRows(dr) |->
        SumOf([i \in 1..dr.ncols |-> Mul(dr.rows[r][i], w[i])], FALSE)]

Triple(ret, vol, sharpe) == [kind |-> "ok", ret |-> ret, vol |-> vol, sharpe |-> sharpe]

ValueError == [kind |-> "ValueError"]

\* The locals of calculate_risk_metrics before rounding: Series.mean(),
\* Series.std() (pandas: ddof = 1) and the guarded quotient.
RiskMetricsLocals(dr, w) ==
    LET ptf_returns == calculate_portfolio_return(dr, w)
        mean_return == Mul(MeanOf(ptf_returns, TRUE), Fin(TradingDays, 1))
        volatility == SurdMul(StdOf(ptf_returns, 1, TRUE), SqrtTradingDays)
        sharpe_ratio == IF SurdNonZero(volatility)
                        THEN SurdDiv(SurdOf(mean_return), volatility)
                        ELSE SurdZero
    IN  Triple(mean_return, volatility, sharpe_ratio)

\* The dictionary calculate_risk_metrics returns: each value rounded to 4 decimals.
calculate_risk_metrics(dr, w) ==
    IF Len(w) # dr.ncols THEN ValueError
    ELSE LET l == RiskMetricsLocals(dr, w)
         IN  Triple(Round4(l.ret), Round4Surd(l.vol), Round4Surd(l.sharpe))

\* optimizer.py: np.mean and np.std (ddof = 0) of np.dot(returns, weights).
get_portfolio_performance(w, dr) ==
    IF Len(w) # dr.ncols THEN ValueError
    ELSE LET ptf == Dot(dr, w)
             ptf_return == Mul(MeanOf(ptf, FALSE), Fin(TradingDays, 1))
             ptf_volatility == SurdMul(StdOf(ptf, 0, FALSE), SqrtTradingDays)
             sharpe_ratio == IF SurdNonZero(ptf_volatility)
                             THEN SurdDiv(SurdOf(ptf_return), ptf_volatility)
                             ELSE SurdZero
         IN  Triple(ptf_return, ptf_volatility, sharpe_ratio)

\* app.py: the original allocation's metrics; np.mean and np.std of a pandas
\* Series (np.std passes ddof = 0 on), and an unguarded quotient.
original_allocation(dr, w) ==
    IF Len(w) # dr.ncols THEN ValueError
    ELSE LET ptf == calculate_portfolio_return(dr, w)
             original_allocation_return == Mul(MeanOf(ptf, TRUE), Fin(TradingDays, 1))
             original_allocation_vol == SurdMul(StdOf(ptf, 0, TRUE), SqrtTradingDays)
             original_allocation_sharpe ==
                 SurdDiv(SurdOf(original_allocation_return), original_allocation_vol)
         IN  Triple(original_allocation_return, original_allocation_vol,
                    original_allocation_sharpe)

(***************************************************************************)
(* optimizer.py: optimize_portfolio.  scipy's minimize is not part of the  *)
(* repository: its result is an input of the code that calls it, drawn     *)
(* from the feasible points of a grid (the equal-weight start among them), *)
(* with a success flag that the code never reads.                          *)
(***************************************************************************)
GridSteps == 2       \* the solver's grid: weights are multiples of 1/GridSteps

\* a <= b on finite floats.
Leq(a, b) == a.n * b.d <= b.n * a.d

initial_weights(assets_count) == [i \in 1..assets_count |-> Fin(1, assets_count)]

\* The sequences of n naturals that sum to total.
RECURSIVE Compositions(_, _)
Compositions(n, total) ==
    IF n = 0 THEN (IF total = 0 THEN {<<>>} ELSE {})
    ELSE UNION { { <<k>> \o c : c \in Compositions(n - 1, total - k) } : k \in 0..total }

\* bounds (0, 1) on every weight and the constraint sum(x) - 1 = 0.
Feasible(x) ==
    /\ \A i \in 1..Len(x) : IsFinite(x[i]) /\ Leq(Zero, x[i]) /\ Leq(x[i], One)
    /\ SumOf(x, FALSE) = One

\* The feasible points among the start and the points of the grid.
FeasiblePoints(assets_count) ==
    { x \in {initial_weights(assets_count)} \cup
             { [i \in 1..assets_count |-> Fin(c[i], GridSteps)] :
                   c \in Compositions(assets_count, GridSteps) } : Feasible(x) }

\* What minimize(objective, initial_weights, method="SLSQP", ...) may return.
SolverResults(assets_count) ==
    { [called |-> TRUE, x |-> x, success |-> ok] :
          x \in FeasiblePoints(assets_count), ok \in BOOLEAN }

ZeroDivisionError == [kind |-> "ZeroDivisionError"]

InvalidMethod ==
    [kind |-> "ValueError", msg |-> "Invalid optimization method. Use 'sharpe' or 'min_vol'."]

\* A set-up whose last branch is a plain else: any other method string
\* minimises the volatility.
OptimizeSetup_else_min_vol(returns, m) ==
    IF returns.ncols = 0 THEN ZeroDivisionError
    ELSE IF m = "sharpe" THEN [kind |-> "ok", objective |-> "-sharpe"]
    ELSE [kind |-> "ok", objective |-> "vol"]

\* optimize_portfolio up to the call of minimize: 1.0 / assets_count, then
\* the choice of the objective.
OptimizeSetup(returns, m) ==
    IF returns.ncols = 0 THEN ZeroDivisionError
    ELSE IF m = "sharpe" THEN [kind |-> "ok", objective |-> "-sharpe"]
    ELSE IF m = "min_vol" THEN [kind |-> "ok", objective |-> "vol"]
    ELSE InvalidMethod

\* optimize_portfolio after minimize: the performance of result.x and the
\* dictionary returned, weights and metrics rounded to 4 decimals.
OptimizeResult(returns, x) ==
    LET perf == get_portfolio_performance(x, returns)
    IN  [kind |-> "ok",
         optimal_weights |-> [i \in 1..Len(x) |-> Round4(x[i])],
         annual_return |-> Round4(perf.ret),
         volatility |-> Round4Surd(perf.vol),
         sharpe_ratio |-> Round4Surd(perf.sharpe)]

\* The whole call, given the x of what minimize returns.
optimize_portfolio(returns, m, x) ==
    IF OptimizeSetup(returns, m).kind # "ok" THEN OptimizeSetup(returns, m)
    ELSE OptimizeResult(returns, x)

NotComputed == [kind |-> "none"]

NoMetrics == [risk |-> NotComputed, perf |-> NotComputed, orig |-> NotComputed]

NoBenchmark == [kind |-> "none"]

(***************************************************************************)
(* The returns engine on its own: a price table, then its daily returns,   *)
(* then their cumulative returns.                                          *)
(***************************************************************************)
\* The prices a cell may hold: a zero and two prices with ratios 1/2, 1, 2.
PriceValues == {Zero, One, Fin(2, 1)}

\* One asset, and two for what pandas does row-wise (dropna).
ColumnCounts == {1, 2}

PriceTables ==
    UNION { { Table(c, rows) : rows \in [1..t -> [1..c -> PriceValues]] }
            : t \in 0..MaxDays, c \in ColumnCounts }

\* The script is not running: no input, no portfolio, no message, no call.
IdleApp ==
    /\ input_mode = "none"
    /\ tickers = <<>>
    /\ weight_text = <<>>
    /\ selected = "none"
    /\ portfolio = <<>>
    /\ button = FALSE
    /\ sidebar_error = "none"
    /\ main_message = "none"
    /\ benchmark = NoBenchmark
    /\ calls = <<>>

Idle ==
    /\ weights = <<>>
    /\ metrics = NoMetrics
    /\ method = "none"
    /\ solver = [called |-> FALSE]
    /\ result = [kind |-> "none"]
    /\ IdleApp

InitReturns ==
    /\ pc = "prices"
    /\ prices \in PriceTables
    /\ daily_returns = NoTable
    /\ cumulative_return = NoTable
    /\ Idle

DailyReturns ==
    /\ pc = "prices"
    /\ daily_returns' = calculate_daily_returns(prices)
    /\ pc' = "daily"
    /\ UNCHANGED <<prices, cumulative_return, weights, metrics, method,
                   solver, result, calls, appVars>>

CumulativeReturns ==
    /\ pc = "daily"
    /\ cumulative_return' = calculate_cumulative_returns(daily_returns)
    /\ pc' = "cumulative"
    /\ UNCHANGED <<prices, daily_returns, weights, metrics, method, solver,
                   result, calls, appVars>>

NextReturns == DailyReturns \/ CumulativeReturns

SpecReturns == InitReturns /\ [][NextReturns]_vars

(***************************************************************************)
(* The three metric computations on one returns matrix and weight vector:  *)
(* calculate_risk_metrics (its locals and the dictionary it returns),      *)
(* get_portfolio_performance and app.py's original-allocation block.       *)
(***************************************************************************)
RetValues == {Fin(-1, 100), Zero, Fin(1, 100)}

WeightValues == {Zero, Fin(1, 2), One}

ReturnTables ==
    UNION { { Table(c, rows) : rows \in [1..t -> [1..c -> RetValues]] }
            : t \in 0..(MaxDays - 1), c \in ColumnCounts }

InitMetrics ==
    /\ pc = "metrics"
    /\ prices = NoTable
    /\ daily_returns \in ReturnTables
    /\ cumulative_return = NoTable
    /\ weights \in [1..daily_returns.ncols -> WeightValues]
    /\ metrics = NoMetrics
    /\ method = "none"
    /\ solver = [called |-> FALSE]
    /\ result = [kind |-> "none"]
    /\ IdleApp

RiskMetrics ==
    /\ pc = "metrics"
    /\ metrics.risk = NotComputed
    /\ metrics' = [metrics EXCEPT !.risk =
                      [kind |-> "ok",
                       locals |-> RiskMetricsLocals(daily_returns, weights),
                       returned |-> calculate_risk_metrics(daily_returns, weights)]]
    /\ UNCHANGED <<pc, prices, daily_returns, cumulative_return, weights,
                   method, solver, result, calls, appVars>>

PortfolioPerformance ==
    /\ pc = "metrics"
    /\ metrics.perf = NotComputed
    /\ metrics' = [metrics EXCEPT !.perf = get_portfolio_performance(weights, daily_returns)]
    /\ UNCHANGED <<pc, prices, daily_returns, cumulative_return, weights,
                   method, solver, result, calls, appVars>>

OriginalAllocation ==
    /\ pc = "metrics"
    /\ metrics.orig = NotComputed
    /\ metrics' = [metrics EXCEPT !.orig = original_allocation(daily_returns, weights)]
    /\ UNCHANGED <<pc, prices, daily_returns, cumulative_return, weights,
                   method, solver, result, calls, appVars>>

NextMetrics == RiskMetrics \/ PortfolioPerformance \/ OriginalAllocation

SpecMetrics == InitMetrics /\ [][NextMetrics]_vars

(***************************************************************************)
(* optimize_portfolio on its own: a returns matrix and a method string.    *)
(***************************************************************************)
MaxAssets == 6       \* columns of the returns matrix handed to the optimizer

Methods == {"sharpe", "min_vol", "foo", "Sharpe"}

OptimizerValues == {Zero, Fin(1, 100)}

\* Returns matrices of n >= 1 assets (the optimizer is given N >= 1 assets)
\* whose columns all hold the series a: every weight vector that sums to 1
\* then has the same return series, so every feasible point is a minimiser
\* of either objective and may be what minimize returns.
OptimizerTables ==
    UNION { { Table(n, [r \in 1..t |-> [i \in 1..n |-> a[r]]]) :
                a \in [1..t -> OptimizerValues] }
            : t \in 1..(MaxDays - 1), n \in 1..MaxAssets }

InitOptimizer ==
    /\ pc = "optimize"
    /\ prices = NoTable
    /\ daily_returns \in OptimizerTables
    /\ cumulative_return = NoTable
    /\ weights = <<>>
    /\ metrics = NoMetrics
    /\ method \in Methods
    /\ solver = [called |-> FALSE]
    /\ result = [kind |-> "none"]
    /\ IdleApp

\* Lines 21-35: the set-up ends in an exception or goes on to minimize.
Setup ==
    /\ pc = "optimize"
    /\ LET s == OptimizeSetup(daily_returns, method)
       IN  IF s.kind = "ok"
           THEN /\ pc' = "minimize"
                /\ weights' = initial_weights(daily_returns.ncols)
                /\ UNCHANGED result
           ELSE /\ pc' = "raised"
                /\ result' = s
                /\ UNCHANGED weights
    /\ UNCHANGED <<prices, daily_returns, cumulative_return, metrics, method,
                   solver, calls, appVars>>

\* Lines 37-38: minimize runs (and evaluates the objective).
Minimize ==
    /\ pc = "minimize"
    /\ solver' \in SolverResults(daily_returns.ncols)
    /\ calls' = calls \o <<"minimize">>
    /\ pc' = "solved"
    /\ UNCHANGED <<prices, daily_returns, cumulative_return, weights, metrics,
                   method, result, appVars>>

\* Lines 40-48: the performance of result.x and the returned dictionary.
Return ==
    /\ pc = "solved"
    /\ result' = OptimizeResult(daily_returns, solver.x)
    /\ calls' = calls \o <<"get_portfolio_performance">>
    /\ pc' = "returned"
    /\ UNCHANGED <<prices, daily_returns, cumulative_return, weights, metrics,
                   method, solver, appVars>>

NextOptimizer == Setup \/ Minimize \/ Return

SpecOptimizer == InitOptimizer /\ [][NextOptimizer]_vars

(***************************************************************************)
(* app.py: one run of the Streamlit script.  The widgets' values are the   *)
(* inputs of the run; yf.download's answer is an input of load_prices.     *)
(***************************************************************************)
MaxFields == 2       \* comma-separated fields typed into a text area

\* A dict is the sequence of its <<key, value>> items in insertion order.
PRELOADED_PORTFOLIOS ==
    [name \in {"Tech Core", "Dividend Mix", "Global ETF Blend"} |->
        CASE name = "Tech Core" ->
                 << <<"AAPL", Fin(1, 4)>>, <<"MSFT", Fin(1, 4)>>,
                    <<"GOOGL", Fin(1, 4)>>, <<"AMZN", Fin(1, 4)>> >>
          [] name = "Dividend Mix" ->
                 << <<"JNJ", Fin(1, 5)>>, <<"PG", Fin(1, 5)>>, <<"KO", Fin(1, 5)>>,
                    <<"PEP", Fin(1, 5)>>, <<"MCD", Fin(1, 5)>> >>
          [] OTHER ->
                 << <<"SPY", Fin(2, 5)>>, <<"EFA", Fin(3, 10)>>,
                    <<"EEM", Fin(1, 5)>>, <<"AGG", Fin(1, 10)>> >>]

Keys(d) == [i \in 1..Len(d) |-> d[i][1]]

Values(d) == [i \in 1..Len(d) |-> d[i][2]]

\* The fields a user may type for a ticker and for a weight.
TickerFields == {"AAPL", " msft"}

WeightFields == {"1", "0.5", "1.5", "-0.5", "abc"}

\* t.strip().upper()
StripUpper(t) == IF t = " msft" THEN "MSFT" ELSE t

\* float(w.strip()): the float, or a ValueError for text that is no number.
ParseFloat(w) ==
    CASE w = "1" -> [kind |-> "ok", value |-> One]
      [] w = "0.5" -> [kind |-> "ok", value |-> Fin(1, 2)]
      [] w = "1.5" -> [kind |-> "ok", value |-> Fin(3, 2)]
      [] w = "-0.5" -> [kind |-> "ok", value |-> Fin(-1, 2)]
      [] OTHER -> [kind |-> "ValueError", value |-> NaN]

\* dict(zip(keys, values)) after the first i pairs: a key seen again keeps
\* its place and takes the later value.
RECURSIVE DictZip(_, _, _)
DictZip(keys, values, i) ==
    IF i = 0 THEN <<>>
    ELSE LET d == DictZip(keys, values, i - 1)
             seen == {j \in 1..Len(d) : d[j][1] = keys[i]}
         IN  IF seen = {} THEN Append(d, <<keys[i], values[i]>>)
             ELSE [j \in 1..Len(d) |-> IF j \in seen THEN <<keys[i], values[i]>> ELSE d[j]]

Min(a, b) == IF a < b THEN a ELSE b

CouldNotConvert == "could not convert string to float"

SumNotOne == "Sum of weights should be 1"

CountMismatch == "Number of tickers and weights must match."

\* The manual-entry block with the dictionary built before the checks: a
\* failed check leaves the portfolio assigned.
ManualEntry_zip_first(tk, wt) ==
    LET ticker_list == [i \in 1..Len(tk) |-> StripUpper(tk[i])]
        parsed == [i \in 1..Len(wt) |-> ParseFloat(wt[i])]
        weight_list == [i \in 1..Len(wt) |-> parsed[i].value]
        zipped == DictZip(ticker_list, weight_list, Min(Len(tk), Len(wt)))
    IN  IF \E i \in 1..Len(wt) : parsed[i].kind # "ok"
        THEN [portfolio |-> <<>>, error |-> CouldNotConvert]
        ELSE IF SumOf(weight_list, FALSE) # One
        THEN [portfolio |-> zipped, error |-> SumNotOne]
        ELSE IF Len(ticker_list) = Len(weight_list)
        THEN [portfolio |-> zipped, error |-> "none"]
        ELSE [portfolio |-> zipped, error |-> CountMismatch]

\* Lines 33-42: what the manual-entry block leaves in portfolio, and the
\* message of the exception it raised, if any.
ManualEntry(tk, wt) ==
    LET ticker_list == [i \in 1..Len(tk) |-> StripUpper(tk[i])]
        parsed == [i \in 1..Len(wt) |-> ParseFloat(wt[i])]
        weight_list == [i \in 1..Len(wt) |-> parsed[i].value]
    IN  IF \E i \in 1..Len(wt) : parsed[i].kind # "ok"
        THEN [portfolio |-> <<>>, error |-> CouldNotConvert]
        ELSE IF SumOf(weight_list, FALSE) # One
        THEN [portfolio |-> <<>>, error |-> SumNotOne]
        ELSE IF Len(ticker_list) = Len(weight_list)
        THEN [portfolio |-> DictZip(ticker_list, weight_list, Len(ticker_list)),
              error |-> "none"]
        ELSE [portfolio |-> <<>>, error |-> CountMismatch]

\* What yf.download may answer: nothing for the tickers asked (the column
\* selection then raises KeyError), or a frame; every ticker's Close column
\* holds the same series.
RawColumns ==
    { <<One, One>>, <<One, NaN>>, <<One, Fin(2, 1)>>, <<One, Fin(2, 1), One>> }

Downloads ==
    {[kind |-> "nothing", close |-> <<>>]} \cup
    {[kind |-> "frame", close |-> c] : c \in RawColumns}

\* load_prices: a column whose deduplicated values have length 1 fails the
\* assertion; rows with a missing value are dropped.
load_prices(data, ticker_list) ==
    IF data.kind = "nothing" THEN [kind |-> "KeyError", data |-> NoTable]
    ELSE LET frame == Table(Len(ticker_list),
                            [r \in 1..Len(data.close) |->
                                [i \in 1..Len(ticker_list) |-> data.close[r]]])
             missing_prices ==
                 {i \in 1..frame.ncols :
                      Cardinality({frame.rows[r][i] : r \in 1..NRows(frame)}) = 1}
         IN  IF missing_prices # {}
             THEN [kind |-> "No prices found for these tickers", data |-> NoTable]
             ELSE [kind |-> "ok", data |-> DropNa(DropNa(frame))]

\* Lines 73-75: the benchmark's metrics, its Sharpe ratio a plain quotient.
benchmark_metrics(dr) ==
    LET col == [r \in 1..NRows(dr) |-> dr.rows[r][1]]
        benchmark_return == Mul(MeanOf(col, TRUE), Fin(TradingDays, 1))
        benchmark_vol == SurdMul(StdOf(col, 0, TRUE), SqrtTradingDays)
        benchmark_sharpe == SurdDiv(SurdOf(benchmark_return), benchmark_vol)
    IN  Triple(benchmark_return, benchmark_vol, benchmark_sharpe)

Info == "Upload your portfolio or select a sample on the sidebar to start optimizing."

PleaseProvide == "Please provide a valid portfolio."

Complete == "Optimization Complete!"

Init ==
    /\ pc = "input"
    /\ prices = NoTable
    /\ daily_returns = NoTable
    /\ cumulative_return = NoTable
    /\ weights = <<>>
    /\ metrics = NoMetrics
    /\ method = "none"
    /\ solver = [called |-> FALSE]
    /\ result = [kind |-> "none"]
    /\ input_mode \in {"Manual Entry", "Preloaded Portfolio"}
    /\ IF input_mode = "Manual Entry"
       THEN /\ tickers \in UNION { [1..n -> TickerFields] : n \in 1..MaxFields }
            /\ weight_text \in UNION { [1..n -> WeightFields] : n \in 1..MaxFields }
            /\ selected = "none"
       ELSE /\ tickers = <<>>
            /\ weight_text = <<>>
            /\ selected \in DOMAIN PRELOADED_PORTFOLIOS
    /\ portfolio = <<>>
    /\ button \in BOOLEAN
    /\ sidebar_error = "none"
    /\ main_message = "none"
    /\ benchmark = NoBenchmark
    /\ calls = <<>>

inputVars == <<input_mode, tickers, weight_text, selected, button>>

tableVars == <<prices, daily_returns, cumulative_return>>

\* Lines 29-49: the portfolio is read; an exception is shown in the sidebar.
ReadPortfolio ==
    /\ pc = "input"
    /\ LET read == IF input_mode = "Manual Entry"
                   THEN ManualEntry(tickers, weight_text)
                   ELSE [portfolio |-> PRELOADED_PORTFOLIOS[selected], error |-> "none"]
       IN  /\ portfolio' = read.portfolio
           /\ sidebar_error' = read.error
    /\ pc' = "button"
    /\ UNCHANGED <<inputVars, tableVars, weights, metrics, method, solver, result,
                   main_message, benchmark, calls>>

\* Lines 53, 151-152: the button was not pressed.
NotPressed ==
    /\ pc = "button"
    /\ ~button
    /\ main_message' = Info
    /\ pc' = "done"
    /\ UNCHANGED <<inputVars, tableVars, weights, metrics, method, solver, result,
                   portfolio, sidebar_error, benchmark, calls>>

\* Lines 53-55: the button was pressed with no portfolio.
NoPortfolio ==
    /\ pc = "button"
    /\ button
    /\ portfolio = <<>>
    /\ main_message' = PleaseProvide
    /\ pc' = "done"
    /\ UNCHANGED <<inputVars, tableVars, weights, metrics, method, solver, result,
                   portfolio, sidebar_error, benchmark, calls>>

\* Lines 57-63: the portfolio's prices, daily and cumulative returns; an
\* exception of load_prices ends the run in the handler of line 153.
FetchPrices ==
    /\ pc = "button"
    /\ button
    /\ portfolio # <<>>
    /\ \E data \in Downloads :
           LET loaded == load_prices(data, Keys(portfolio))
           IN  IF loaded.kind = "ok"
               THEN /\ prices' = loaded.data
                    /\ daily_returns' = calculate_daily_returns(loaded.data)
                    /\ cumulative_return' =
                           calculate_cumulative_returns(calculate_daily_returns(loaded.data))
                    /\ calls' = calls \o <<"load_prices", "calculate_daily_returns",
                                           "calculate_cumulative_returns">>
                    /\ pc' = "benchmark"
                    /\ UNCHANGED sidebar_error
               ELSE /\ sidebar_error' = loaded.kind
                    /\ calls' = calls \o <<"load_prices">>
                    /\ pc' = "done"
                    /\ UNCHANGED tableVars
    /\ weights' = Values(portfolio)
    /\ UNCHANGED <<inputVars, metrics, method, solver, result, portfolio,
                   main_message, benchmark>>

\* Lines 65-67: the same for the benchmark ^GSPC.
FetchBenchmark ==
    /\ pc = "benchmark"
    /\ \E data \in Downloads :
           LET loaded == load_prices(data, <<"^GSPC">>)
           IN  IF loaded.kind = "ok"
               THEN /\ benchmark' =
                           [kind |-> "ok",
                            prices |-> loaded.data,
                            daily_returns |-> calculate_daily_returns(loaded.data),
                            cumulative_return |->
                                calculate_cumulative_returns(calculate_daily_returns(loaded.data)),
                            metrics |-> NotComputed]
                    /\ calls' = calls \o <<"load_prices", "calculate_daily_returns",
                                           "calculate_cumulative_returns">>
                    /\ pc' = "metrics"
                    /\ UNCHANGED sidebar_error
               ELSE /\ sidebar_error' = loaded.kind
                    /\ calls' = calls \o <<"load_prices">>
                    /\ pc' = "done"
                    /\ UNCHANGED benchmark
    /\ UNCHANGED <<inputVars, tableVars, weights, metrics, method, solver, result,
                   portfolio, main_message>>

\* Lines 70-91: the metrics of the allocation as supplied and of the benchmark.
Evaluate ==
    /\ pc = "metrics"
    /\ metrics' = [metrics EXCEPT !.orig = original_allocation(daily_returns, weights)]
    /\ benchmark' = [benchmark EXCEPT !.metrics = benchmark_metrics(benchmark.daily_returns)]
    /\ method' = "sharpe"
    /\ calls' = calls \o <<"metric evaluation">>
    /\ pc' = "optimize"
    /\ UNCHANGED <<inputVars, tableVars, weights, solver, result, portfolio,
                   sidebar_error, main_message>>

\* Lines 93-103: one turn of the loop over ("sharpe", "min_vol"); result is
\* the dictionary res of this turn, whose entries results[name] takes.
OptimizeNext ==
    /\ pc = "optimize"
    /\ \E x \in FeasiblePoints(daily_returns.ncols) :
           LET res == optimize_portfolio(daily_returns, method, x)
           IN  IF res.kind = "ok"
               THEN /\ result' = res
                    /\ IF method = "sharpe"
                       THEN method' = "min_vol" /\ pc' = "optimize"
                       ELSE method' = method /\ pc' = "render"
                    /\ UNCHANGED sidebar_error
               ELSE /\ sidebar_error' = res.kind
                    /\ pc' = "done"
                    /\ UNCHANGED <<result, method>>
    /\ calls' = calls \o <<"optimize_portfolio">>
    /\ UNCHANGED <<inputVars, tableVars, weights, metrics, solver, portfolio,
                   main_message, benchmark>>

\* Line 105: the results are announced (the charts and tables follow).
Render ==
    /\ pc = "render"
    /\ main_message' = Complete
    /\ pc' = "done"
    /\ UNCHANGED <<inputVars, tableVars, weights, metrics, method, solver, result,
                   portfolio, sidebar_error, benchmark, calls>>

Next ==
    \/ ReadPortfolio
    \/ NotPressed
    \/ NoPortfolio
    \/ FetchPrices
    \/ FetchBenchmark
    \/ Evaluate
    \/ OptimizeNext
    \/ Render

Spec == Init /\ [][Next]_vars

(***************************************************************************)
(* Properties of the returns engine (SpecReturns).                         *)
(***************************************************************************)
Cells(t) == { <<r, i>> : r \in 1..NRows(t), i \in 1..t.ncols }

\* Later rows compound: cum[r] = (1 + cum[r-1]) * (1 + daily[r]) - 1.
Compounds ==
    \A c \in Cells(daily_returns) :
        c[1] >= 2 =>
            cumulative_return.rows[c[1]][c[2]] =
                Sub(Mul(Add(One, cumulative_return.rows[c[1] - 1][c[2]]),
                        Add(One, daily_returns.rows[c[1]][c[2]])), One)

SameShape ==
    /\ NRows(cumulative_return) = NRows(daily_returns)
    /\ cumulative_return.ncols = daily_returns.ncols

\* C5 as stated: the cumulative returns have the rows of the daily returns,
\* are 0 in the first row for every asset, and compound in every later row.
C5_FirstRowZero ==
    pc = "cumulative" =>
        /\ SameShape
        /\ \A c \in Cells(daily_returns) :
               c[1] = 1 => cumulative_return.rows[1][c[2]] = Zero
        /\ Compounds

\* C5 amended: the cumulative returns have the rows of the daily returns,
\* equal the daily return itself in the first row (the compounding starts
\* from 0 before the first row), and compound in every later row.
C5_FirstRowIsFirstReturn ==
    pc = "cumulative" =>
        /\ SameShape
        /\ \A c \in Cells(daily_returns) :
               c[1] = 1 => cumulative_return.rows[1][c[2]] = daily_returns.rows[1][c[2]]
        /\ Compounds

\* A finite, nonzero first return followed by a second row that compounds it.
C5_Witness ==
    /\ pc = "cumulative"
    /\ NRows(daily_returns) >= 2
    /\ IsFinite(daily_returns.rows[1][1]) /\ daily_returns.rows[1][1] # Zero
    /\ IsFinite(daily_returns.rows[2][1]) /\ daily_returns.rows[2][1] # Zero
    /\ cumulative_return.rows[2][1] # Add(daily_returns.rows[1][1], daily_returns.rows[2][1])

\* The returns table has one row fewer than the prices, and every entry is
\* the finite value price(t)/price(t-1) - 1.
OneRowFewerAllDefined ==
    /\ NRows(daily_returns) = NRows(prices) - 1
    /\ daily_returns.ncols = prices.ncols
    /\ \A c \in Cells(daily_returns) :
           LET e == daily_returns.rows[c[1]][c[2]]
           IN  /\ IsFinite(e)
               /\ Mul(Add(e, One), prices.rows[c[1]][c[2]]) = prices.rows[c[1] + 1][c[2]]

\* No price that is divided by (any row but the last) is zero.
NoZeroDivisor ==
    \A c \in Cells(prices) : c[1] < NRows(prices) => prices.rows[c[1]][c[2]] # Zero

\* C6 as stated: for every price table of at least 2 rows, zero prices
\* included, the daily returns have one row fewer, each entry is
\* price(t)/price(t-1) - 1, and none is NaN or infinite.
C6_AnyPrices ==
    (pc \in {"daily", "cumulative"} /\ NRows(prices) >= 2) => OneRowFewerAllDefined

\* C6 amended: the same for every price table of at least 2 rows in which no
\* price but those of the last row is zero.
C6_NonZeroPrices ==
    (pc \in {"daily", "cumulative"} /\ NRows(prices) >= 2 /\ NoZeroDivisor)
        => OneRowFewerAllDefined

\* Three rows of two assets, no zero divisor, a zero in the last row.
C6_Witness ==
    /\ pc = "daily"
    /\ NRows(prices) = 3 /\ prices.ncols = 2
    /\ NoZeroDivisor
    /\ prices.rows[3][2] = Zero
    /\ daily_returns.rows[1][1] # Zero

(***************************************************************************)
(* Properties of the metric computations (SpecMetrics).                    *)
(***************************************************************************)
\* The exact triples computed so far: <<origin, triple>>.
Computed ==
    (IF metrics.risk.kind = "ok" THEN {<<"risk", metrics.risk.locals>>} ELSE {}) \cup
    (IF metrics.perf.kind = "ok" THEN {<<"perf", metrics.perf>>} ELSE {}) \cup
    (IF metrics.orig.kind = "ok" THEN {<<"orig", metrics.orig>>} ELSE {})

\* C4: every Sharpe ratio computed (calculate_risk_metrics,
\* get_portfolio_performance, app.py's original allocation) is
\* Annual Return / Volatility when Volatility != 0 and exactly 0 when
\* Volatility == 0: nothing is ever divided by a zero volatility.
C4_SharpeGuarded ==
    \A m \in Computed :
        IF SurdNonZero(m[2].vol)
        THEN m[2].sharpe = SurdDiv(SurdOf(m[2].ret), m[2].vol)
        ELSE m[2].sharpe = SurdZero

\* The population variance of a series: mean(x^2) - mean(x)^2.
PopulationVariance(xs) ==
    Sub(MeanOf([i \in 1..Len(xs) |-> Mul(xs[i], xs[i])], FALSE),
        Mul(MeanOf(xs, FALSE), MeanOf(xs, FALSE)))

PopulationVolatility(dr, w) ==
    Sqrt(Mul(PopulationVariance(Dot(dr, w)), Fin(TradingDays, 1)))

\* C8: in calculate_risk_metrics and in get_portfolio_performance alike the
\* Volatility is the population standard deviation (divisor T) of the
\* portfolio return times sqrt(252) and the Annual Return is its mean times
\* 252, so the two give the same Annual Return, Volatility and Sharpe Ratio
\* once rounded to 4 decimals.
C8_SameMetrics ==
    (metrics.risk.kind = "ok" /\ metrics.perf.kind = "ok") =>
        /\ metrics.risk.locals.vol = PopulationVolatility(daily_returns, weights)
        /\ metrics.perf.vol = PopulationVolatility(daily_returns, weights)
        /\ metrics.risk.locals.ret = metrics.perf.ret
        /\ metrics.risk.returned.ret = Round4(metrics.perf.ret)
        /\ metrics.risk.returned.vol = Round4Surd(metrics.perf.vol)
        /\ metrics.risk.returned.sharpe = Round4Surd(metrics.perf.sharpe)

(***************************************************************************)
(* Properties of optimize_portfolio (SpecOptimizer).                       *)
(***************************************************************************)
Tolerance == Fin(1, Pow10(Decimals))

AbsF(a) == [a EXCEPT !.n = Abs(a.n)]

\* The reported weights stay in [lo, hi] and sum to within tol of 1.
ReportedWithin(lo, hi, tol) ==
    /\ \A i \in 1..Len(result.optimal_weights) :
           /\ IsFinite(result.optimal_weights[i])
           /\ Leq(lo, result.optimal_weights[i])
           /\ Leq(result.optimal_weights[i], hi)
    /\ Leq(AbsF(Sub(SumOf(result.optimal_weights, FALSE), One)), tol)

\* C1: whatever the method, the matrix (N >= 1) and the solver's success,
\* the reported weights (the solver's, rounded to 4 decimals) sum to within
\* 1e-4 of 1 and each lies in [0, 1] within 1e-4.
C1_WithinTolerance ==
    (pc = "returned" /\ daily_returns.ncols >= 1) =>
        ReportedWithin(Neg(Tolerance), Add(One, Tolerance), Tolerance)

ValidMethod == method \in {"sharpe", "min_vol"}

\* The call raised the invalid-method error: no solver, no metric, no result.
EndsInvalidMethod ==
    /\ pc \in {"optimize", "raised"}
    /\ pc = "raised" => result = InvalidMethod
    /\ ~solver.called
    /\ calls = <<>>
    /\ result.kind # "ok"

\* C3: with any method string but 'sharpe' and 'min_vol' the call ends in
\* the invalid-method error; minimize and the metric evaluation are never
\* invoked on that call and no result dictionary is returned.
C3_InvalidMethodRaises == ~ValidMethod => EndsInvalidMethod

\* The call with method "foo" on a two-row matrix of two assets has raised.
C3_Witness ==
    /\ pc = "raised"
    /\ method = "foo"
    /\ daily_returns.ncols = 2 /\ NRows(daily_returns) = 2
    /\ result = InvalidMethod


(***************************************************************************)
(* Properties of the app.py script (Spec).                                 *)
(***************************************************************************)
Called(f) == \E i \in 1..Len(calls) : calls[i] = f

\* C7: with fewer than 2 price rows left after load_prices,
\* calculate_daily_returns fails (insufficient data) instead of returning an
\* empty table: it returns only from 2 rows or more, and no metric and no
\* optimization is computed from a returns matrix without rows.
C7_InsufficientDataRejected ==
    /\ Called("calculate_daily_returns") => NRows(prices) >= 2
    /\ (Called("metric evaluation") \/ Called("optimize_portfolio")) =>
           NRows(daily_returns) >= 1

\* The number of tickers the user entered or the preloaded portfolio lists.
TickersEntered ==
    IF input_mode = "Manual Entry" THEN Len(tickers)
    ELSE Len(PRELOADED_PORTFOLIOS[selected])

\* C9: every portfolio accepted and passed on to metric evaluation has one
\* weight per ticker entered, every weight in [0, 1], and weights that sum
\* to 1.
C9_AcceptedPortfolioValid ==
    Called("metric evaluation") =>
        /\ Len(portfolio) = TickersEntered
        /\ \A i \in 1..Len(weights) : Leq(Zero, weights[i]) /\ Leq(weights[i], One)
        /\ SumOf(weights, FALSE) = One

\* Manual entry whose parsing or validation fails: a weight that is no
\* number, weights that do not sum to 1, or as many tickers as weights not.
ManualEntryFails ==
    /\ input_mode = "Manual Entry"
    /\ \/ \E i \in 1..Len(weight_text) : ParseFloat(weight_text[i]).kind # "ok"
       \/ SumOf([i \in 1..Len(weight_text) |-> ParseFloat(weight_text[i]).value], FALSE) # One
       \/ Len(tickers) # Len(weight_text)

\* C10: load_prices, the metric evaluation and optimize_portfolio are
\* reached only if the button was pressed and a portfolio was accepted; when
\* manual entry fails the portfolio stays empty, the error is shown, nothing
\* is called, and a press of Optimize ends in 'Please provide a valid
\* portfolio.'.
C10_ReachedOnlyWithPortfolio ==
    /\ (calls # <<>> \/ metrics # NoMetrics \/ result.kind # "none" \/ prices # NoTable)
           => (button /\ portfolio # <<>>)
    /\ (pc # "input" /\ ManualEntryFails) =>
           /\ portfolio = <<>>
           /\ sidebar_error \in {CouldNotConvert, SumNotOne, CountMismatch}
           /\ calls = <<>>
           /\ pc \in {"button", "done"}
           /\ (pc = "done" /\ button) => main_message = PleaseProvide

\* Optimize pressed after two tickers were entered with one weight, "1".
C10_Witness ==
    /\ pc = "done"
    /\ button
    /\ Len(tickers) = 2 /\ weight_text = <<"1">>
    /\ sidebar_error = CountMismatch
    /\ main_message = PleaseProvide

====
